---- MODULE Spec2Model ----
(***************************************************************************)
(* Model of Library<K, V> (src/lib.rs): a copy-on-write HashMap published  *)
(* through an ArcCell, one ArcCell<V> per key, and a Mutex that serialises *)
(* the insertion of new keys.                                              *)
(*                                                                         *)
(* Heap objects are modelled by identity:                                  *)
(*   snaps  : the Arc<LibraryStore<K, V>> allocations (key -> cell id)     *)
(*   cells  : the Arc<ArcCell<V>> allocations (cell id -> Arc<V> id)       *)
(*   arcs   : the Arc<V> allocations made by `value.into()`                *)
(* ArcCell::get and ArcCell::set (crossbeam) are atomic steps; every       *)
(* action is one access to shared memory together with the thread-local    *)
(* computation that leads to it.                                           *)
(***************************************************************************)
EXTENDS Naturals, Sequences, FiniteSets

\* ---------------------------------------------------------------- bounds
NumThreads == 2
NumKeys    == 2
NumValues  == 2
MaxCalls   == 3
MaxCapacity == 1

Threads == 1..NumThreads
Keys    == 1..NumKeys
Values  == 1..NumValues

\* Option::None for a cell id, a snapshot id, an Arc<V> id, a call id
None == 0

VARIABLES
    internal_data,  \* Library.internal_data: id of the published snapshot
    snaps,          \* heap of HashMap<K, Arc<ArcCell<V>>> allocations
    cells,          \* heap of ArcCell<V>: the Arc<V> each one holds
    arcs,           \* heap of Arc<V>: [val, by] (by: the call that made it)
    insert_mutex,   \* Library.insert_mutex: None, or the thread holding it
    poisoned,       \* the Mutex's poison flag
    pc,             \* per thread: position in get / insert
    key,            \* per thread: the `key` argument of the running call
    call,           \* per thread: id of the running insert call, or None
    store,          \* per thread: the local `store` (snapshot id), or None
    seen,           \* per thread: inserts on `key` completed when get began
    got,            \* history: per thread, the last get that returned
    calls,          \* history: every insert call invoked so far
    floor,          \* history: per thread, the newest Arc<V> that gets on
                    \* `key` had returned when the running get began
    capacity        \* the `capacity` the first HashMap was created with

vars == <<internal_data, snaps, cells, arcs, insert_mutex, poisoned, pc,
          key, call, store, seen, got, calls, floor, capacity>>

shared == <<internal_data, snaps, cells, arcs>>
lock   == <<insert_mutex, poisoned>>

\* ------------------------------------------------------- pure operations

\* HashMap::new(): the empty mapping
EmptyMap == [k \in Keys |-> None]

\* variant: a lookup that misses falls back to any entry of the mapping
LookupAny(s, k) ==
    IF snaps[s][k] # None \/ \A j \in Keys : snaps[s][j] = None
    THEN snaps[s][k]
    ELSE snaps[s][CHOOSE j \in Keys : snaps[s][j] # None]

\* store.get(&key): the cell of `k` in snapshot `s`, or None
Lookup(s, k) == snaps[s][k]

\* self.internal_data(): an atomic load of the published snapshot
LoadStore == internal_data

\* .map(|el| el.get()) on the looked-up entry (line 146)
GetResult(s, k) ==
    LET cl == Lookup(s, k)
    IN  IF cl = None THEN None ELSE cells[cl]

\* what a get of `k` that ran atomically now would return
Visible(k) == GetResult(internal_data, k)

\* variant: the value stored is that of the most recently entered insert
NewArcLatest(c) == [val |-> calls[Len(calls)].val, by |-> c]

\* value.into(): a fresh Arc<V> holding the value of call `c`
NewArc(c) == [val |-> calls[c].val, by |-> c]

\* variant: the new mapping is built empty instead of cloned from `store`
CloneInsertNoClone(s, k, cl) == [EmptyMap EXCEPT ![k] = cl]

\* the number of entries of snapshot `s`
Size(s) == Cardinality({k \in Keys : snaps[s][k] # None})

\* variant: the clone never grows beyond the capacity reserved at creation
CloneInsertNoGrow(s, k, cl) ==
    IF Size(s) < capacity THEN [snaps[s] EXCEPT ![k] = cl] ELSE snaps[s]

\* new_hash.clone() then new_hash.insert(key, cell) (lines 192-194)
CloneInsert(s, k, cl) == [snaps[s] EXCEPT ![k] = cl]

\* the insert calls that have returned, and the insert calls on key k
Done         == {c \in DOMAIN calls : calls[c].state = "done"}
CallsOn(k)   == {c \in DOMAIN calls : calls[c].key = k}
DoneOn(k)    == {c \in CallsOn(k) : calls[c].state = "done"}
RunningOn(k) == {c \in CallsOn(k) : calls[c].state = "run"}

\* the newest Arc<V> that the threads' last returned gets obtained for key k
\* (None if none of them found k); Arc<V> are numbered in the order in which
\* they were stored
Returned(k) ==
    LET R == {got[u].res : u \in Threads} \ {None}
        Rk == {a \in R : calls[arcs[a].by].key = k}
    IN  IF Rk = {} THEN None ELSE CHOOSE a \in Rk : \A b \in Rk : b <= a

\* no get has returned yet on this thread
NoGet == [key |-> None, seen |-> {}, res |-> None, val |-> None]

\* ------------------------------------------------------------------ Init

\* Library::new() / Library::default() (lines 118-130) builds the mapping
\* with HashMap::new(), which reserves nothing; Library::with_capacity(n)
\* (lines 132-137) builds it with HashMap::with_capacity(n), which is as
\* empty and reserves room for n entries
Init ==
    /\ capacity \in 0..MaxCapacity
    /\ snaps = <<EmptyMap>>
    /\ internal_data = 1
    /\ cells = <<>>
    /\ arcs = <<>>
    /\ insert_mutex = None
    /\ poisoned = FALSE
    /\ pc = [t \in Threads |-> "idle"]
    /\ key = [t \in Threads |-> None]
    /\ call = [t \in Threads |-> None]
    /\ store = [t \in Threads |-> None]
    /\ seen = [t \in Threads |-> {}]
    /\ got = [t \in Threads |-> NoGet]
    /\ calls = <<>>
    /\ floor = [t \in Threads |-> None]

\* --------------------------------------------------------------- helpers

\* variant: the value is written in place into the Arc<V> the cell holds
SetCellInPlace(cl, c) ==
    /\ arcs' = [arcs EXCEPT ![cells[cl]] = NewArc(c)]
    /\ cells' = cells

\* variant: the new Arc<V> is made but stored into a copy of the cell
SetCellOnCopy(cl, c) ==
    /\ arcs' = Append(arcs, NewArc(c))
    /\ cells' = cells

\* variant: all keys share one cell, so the swap shows under every key
SetCellShared(cl, c) ==
    /\ arcs' = Append(arcs, NewArc(c))
    /\ cells' = [x \in DOMAIN cells |-> Len(arcs) + 1]

\* arccell.set(value.into()) on cell `cl` by call `c` (lines 154, 165):
\* a new Arc<V> is allocated and swapped into the cell
SetCell(cl, c) ==
    /\ arcs' = Append(arcs, NewArc(c))
    /\ cells' = [cells EXCEPT ![cl] = Len(arcs) + 1]

\* the call of thread t ends (returns, or unwinds with a panic)
Finish(t) ==
    /\ pc' = [pc EXCEPT ![t] = "idle"]
    /\ key' = [key EXCEPT ![t] = None]
    /\ call' = [call EXCEPT ![t] = None]
    /\ store' = [store EXCEPT ![t] = None]

\* ------------------------------------------------------------------- get

\* variant: get takes the snapshot only while the mutex is free
GetLoadLocked(t, k) ==
    /\ pc[t] = "idle"
    /\ insert_mutex = None
    /\ pc' = [pc EXCEPT ![t] = "get_read"]
    /\ key' = [key EXCEPT ![t] = k]
    /\ store' = [store EXCEPT ![t] = LoadStore]
    /\ seen' = [seen EXCEPT ![t] = DoneOn(k)]
    /\ got' = [got EXCEPT ![t] = NoGet]
    /\ floor' = [floor EXCEPT ![t] = Returned(k)]
    /\ UNCHANGED <<capacity, shared, lock, call, calls>>

\* get(key) is entered and self.internal_data() loads the snapshot (line 146)
GetLoad(t, k) ==
    /\ pc[t] = "idle"
    /\ pc' = [pc EXCEPT ![t] = "get_read"]
    /\ key' = [key EXCEPT ![t] = k]
    /\ store' = [store EXCEPT ![t] = LoadStore]
    /\ seen' = [seen EXCEPT ![t] = DoneOn(k)]
    /\ got' = [got EXCEPT ![t] = NoGet]
    /\ floor' = [floor EXCEPT ![t] = Returned(k)]
    /\ UNCHANGED <<capacity, shared, lock, call, calls>>

\* .get(key).map(|el| el.get()) and return (line 146)
GetRead(t) ==
    /\ pc[t] = "get_read"
    /\ LET r == GetResult(store[t], key[t])
       IN  got' = [got EXCEPT ![t] =
                     [key |-> key[t], seen |-> seen[t], res |-> r,
                      val |-> IF r = None THEN None ELSE arcs[r].val]]
    /\ seen' = [seen EXCEPT ![t] = {}]
    /\ floor' = [floor EXCEPT ![t] = None]
    /\ Finish(t)
    /\ UNCHANGED <<capacity, shared, lock, calls>>

\* ---------------------------------------------------------------- insert

\* insert(key, value) is entered and `let store = self.internal_data();`
\* loads the snapshot (line 150)
InsLoad(t, k, v) ==
    /\ pc[t] = "idle"
    /\ Len(calls) < MaxCalls
    /\ calls' = Append(calls, [key |-> k, val |-> v, state |-> "run",
                               path |-> "none", prior |-> Done])
    /\ call' = [call EXCEPT ![t] = Len(calls) + 1]
    /\ key' = [key EXCEPT ![t] = k]
    /\ store' = [store EXCEPT ![t] = LoadStore]
    /\ pc' = [pc EXCEPT ![t] = "ins_fast"]
    /\ got' = [got EXCEPT ![t].key = None, ![t].seen = {}]
    /\ UNCHANGED <<capacity, floor, shared, lock, seen>>

\* variant: the short circuit stores the value only while the mutex is free
InsFastHitLocked(t) ==
    /\ pc[t] = "ins_fast"
    /\ Lookup(store[t], key[t]) # None
    /\ insert_mutex = None
    /\ SetCell(Lookup(store[t], key[t]), call[t])
    /\ calls' = [calls EXCEPT ![call[t]].path = "fast",
                              ![call[t]].state = "done"]
    /\ Finish(t)
    /\ UNCHANGED <<capacity, floor, internal_data, snaps, lock, seen, got>>

\* variant: an existing key short-circuits without storing the value
InsFastHitNoSet(t) ==
    /\ pc[t] = "ins_fast"
    /\ Lookup(store[t], key[t]) # None
    /\ calls' = [calls EXCEPT ![call[t]].path = "fast",
                              ![call[t]].state = "done"]
    /\ Finish(t)
    /\ UNCHANGED <<capacity, floor, shared, lock, seen, got>>

\* variant: the short circuit is refused once the mutex is poisoned
InsFastHitPoisonChecked(t) ==
    /\ pc[t] = "ins_fast"
    /\ ~poisoned
    /\ Lookup(store[t], key[t]) # None
    /\ SetCell(Lookup(store[t], key[t]), call[t])
    /\ calls' = [calls EXCEPT ![call[t]].path = "fast",
                              ![call[t]].state = "done"]
    /\ Finish(t)
    /\ UNCHANGED <<capacity, floor, internal_data, snaps, lock, seen, got>>

\* if let Some(arccell) = store.get(&key) { arccell.set(..); return; }
\* (lines 153-156)
InsFastHit(t) ==
    /\ pc[t] = "ins_fast"
    /\ Lookup(store[t], key[t]) # None
    /\ SetCell(Lookup(store[t], key[t]), call[t])
    /\ calls' = [calls EXCEPT ![call[t]].path = "fast",
                              ![call[t]].state = "done"]
    /\ Finish(t)
    /\ UNCHANGED <<capacity, floor, internal_data, snaps, lock, seen, got>>

\* variant: lock() does not wait for the holder
LockAvailableAlways == TRUE

\* the mutex can be taken by a caller of lock() (line 159)
LockAvailable == insert_mutex = None

\* variant: the poison error is discarded and the guard inside it is used
InsLockIgnorePoison(t) ==
    /\ pc[t] = "ins_fast"
    /\ Lookup(store[t], key[t]) = None
    /\ LockAvailable
    /\ insert_mutex' = t
    /\ pc' = [pc EXCEPT ![t] = "ins_reload"]
    /\ UNCHANGED <<capacity, floor, shared, poisoned, key, call, store, seen, got, calls>>

\* the key is not in the loaded snapshot and
\* self.insert_mutex.lock() returns Ok (lines 153, 159)
InsLock(t) ==
    /\ pc[t] = "ins_fast"
    /\ Lookup(store[t], key[t]) = None
    /\ LockAvailable
    /\ ~poisoned
    /\ insert_mutex' = t
    /\ pc' = [pc EXCEPT ![t] = "ins_reload"]
    /\ UNCHANGED <<capacity, floor, shared, poisoned, key, call, store, seen, got, calls>>

\* the key is not in the loaded snapshot, self.insert_mutex.lock() returns
\* Err(PoisonError) and unwrap() panics; the guard inside the error is
\* dropped by the unwinding (lines 153, 159)
InsLockPoisoned(t) ==
    /\ pc[t] = "ins_fast"
    /\ Lookup(store[t], key[t]) = None
    /\ LockAvailable
    /\ poisoned
    /\ calls' = [calls EXCEPT ![call[t]].state = "panic"]
    /\ Finish(t)
    /\ UNCHANGED <<capacity, floor, shared, lock, seen, got>>

\* variant: the snapshot loaded before the lock is used again
ReloadStoreStale(t) == store[t]

\* what the second self.internal_data() of thread t yields (line 161)
ReloadStore(t) == LoadStore

\* variant: the snapshot is not loaded again under the lock
InsReloadSkipped(t) ==
    /\ pc[t] = "ins_reload"
    /\ pc' = [pc EXCEPT ![t] = "ins_check"]
    /\ UNCHANGED <<capacity, floor, shared, lock, key, call, store, seen, got, calls>>

\* let store = self.internal_data(); under the lock (line 161)
InsReload(t) ==
    /\ pc[t] = "ins_reload"
    /\ store' = [store EXCEPT ![t] = ReloadStore(t)]
    /\ pc' = [pc EXCEPT ![t] = "ins_check"]
    /\ UNCHANGED <<capacity, floor, shared, lock, key, call, seen, got, calls>>

\* variant: the re-check is left out; a key found under the lock is cloned
\* and published again with a fresh cell
InsRecheckOmitted(t) ==
    /\ pc[t] = "ins_check"
    /\ Lookup(store[t], key[t]) # None
    /\ arcs' = Append(arcs, NewArc(call[t]))
    /\ cells' = Append(cells, Len(arcs) + 1)
    /\ snaps' = Append(snaps, [snaps[store[t]] EXCEPT ![key[t]] = Len(cells) + 1])
    /\ internal_data' = Len(snaps) + 1
    /\ calls' = [calls EXCEPT ![call[t]].path = "recheck"]
    /\ pc' = [pc EXCEPT ![t] = "ins_unlock"]
    /\ UNCHANGED <<capacity, floor, lock, key, call, store, seen, got>>

\* variant: the early return of the re-check leaves the mutex locked
InsRecheckHitKeepLock(t) ==
    /\ pc[t] = "ins_check"
    /\ Lookup(store[t], key[t]) # None
    /\ SetCell(Lookup(store[t], key[t]), call[t])
    /\ calls' = [calls EXCEPT ![call[t]].path = "recheck",
                              ![call[t]].state = "done"]
    /\ Finish(t)
    /\ UNCHANGED <<capacity, floor, internal_data, snaps, lock, seen, got>>

\* the re-check finds the key: arccell.set(..); return; (lines 164-167)
InsRecheckHit(t) ==
    /\ pc[t] = "ins_check"
    /\ Lookup(store[t], key[t]) # None
    /\ SetCell(Lookup(store[t], key[t]), call[t])
    /\ calls' = [calls EXCEPT ![call[t]].path = "recheck"]
    /\ pc' = [pc EXCEPT ![t] = "ins_unlock"]
    /\ UNCHANGED <<capacity, floor, internal_data, snaps, lock, key, call, store, seen, got>>

\* variant: the new mapping is built but never stored into internal_data
InsPublishNoSet(t) ==
    /\ pc[t] = "ins_check"
    /\ Lookup(store[t], key[t]) = None
    /\ arcs' = Append(arcs, NewArc(call[t]))
    /\ cells' = Append(cells, Len(arcs) + 1)
    /\ snaps' = Append(snaps, CloneInsert(store[t], key[t], Len(cells) + 1))
    /\ internal_data' = internal_data
    /\ calls' = [calls EXCEPT ![call[t]].path = "publish"]
    /\ pc' = [pc EXCEPT ![t] = "ins_unlock"]
    /\ UNCHANGED <<capacity, floor, lock, key, call, store, seen, got>>

\* variant: the clone copies every cell instead of sharing it (the mapping
\* holds ArcCell<V> rather than Arc<ArcCell<V>>)
InsPublishDeepClone(t) ==
    /\ pc[t] = "ins_check"
    /\ Lookup(store[t], key[t]) = None
    /\ arcs' = Append(arcs, NewArc(call[t]))
    /\ cells' = (cells \o cells) \o <<Len(arcs) + 1>>
    /\ snaps' = Append(snaps,
                  [k \in Keys |->
                     IF k = key[t] THEN 2 * Len(cells) + 1
                     ELSE IF snaps[store[t]][k] = None THEN None
                     ELSE snaps[store[t]][k] + Len(cells)])
    /\ internal_data' = Len(snaps) + 1
    /\ calls' = [calls EXCEPT ![call[t]].path = "publish"]
    /\ pc' = [pc EXCEPT ![t] = "ins_unlock"]
    /\ UNCHANGED <<capacity, floor, lock, key, call, store, seen, got>>

\* variant: the key is inserted into the published mapping itself
InsPublishInPlace(t) ==
    /\ pc[t] = "ins_check"
    /\ Lookup(store[t], key[t]) = None
    /\ arcs' = Append(arcs, NewArc(call[t]))
    /\ cells' = Append(cells, Len(arcs) + 1)
    /\ snaps' = [snaps EXCEPT ![store[t]] =
                    CloneInsert(store[t], key[t], Len(cells) + 1)]
    /\ internal_data' = internal_data
    /\ calls' = [calls EXCEPT ![call[t]].path = "publish"]
    /\ pc' = [pc EXCEPT ![t] = "ins_unlock"]
    /\ UNCHANGED <<capacity, floor, lock, key, call, store, seen, got>>

\* clone the mapping, add a fresh cell, publish (lines 169-199)
InsPublish(t) ==
    /\ pc[t] = "ins_check"
    /\ Lookup(store[t], key[t]) = None
    /\ arcs' = Append(arcs, NewArc(call[t]))
    /\ cells' = Append(cells, Len(arcs) + 1)
    /\ snaps' = Append(snaps, CloneInsert(store[t], key[t], Len(cells) + 1))
    /\ internal_data' = Len(snaps) + 1
    /\ calls' = [calls EXCEPT ![call[t]].path = "publish"]
    /\ pc' = [pc EXCEPT ![t] = "ins_unlock"]
    /\ UNCHANGED <<capacity, floor, lock, key, call, store, seen, got>>

\* _guard is dropped at the end of the function scope (lines 166, 200)
InsUnlock(t) ==
    /\ pc[t] = "ins_unlock"
    /\ insert_mutex' = None
    /\ calls' = [calls EXCEPT ![call[t]].state = "done"]
    /\ Finish(t)
    /\ UNCHANGED <<capacity, floor, shared, poisoned, seen, got>>

\* the key's Hash, Eq or Clone panics under the lock (lines 164, 192, 193):
\* the unwinding drops _guard, which poisons and releases the mutex
InsFail(t) ==
    /\ pc[t] = "ins_check"
    /\ poisoned' = TRUE
    /\ insert_mutex' = None
    /\ calls' = [calls EXCEPT ![call[t]].state = "panic"]
    /\ Finish(t)
    /\ UNCHANGED <<capacity, floor, shared, seen, got>>

\* ------------------------------------------------------------------ Next

Next ==
    \/ \E t \in Threads, k \in Keys : GetLoad(t, k)
    \/ \E t \in Threads : GetRead(t)
    \/ \E t \in Threads, k \in Keys, v \in Values : InsLoad(t, k, v)
    \/ \E t \in Threads : InsFastHit(t)
    \/ \E t \in Threads : InsLock(t)
    \/ \E t \in Threads : InsLockPoisoned(t)
    \/ \E t \in Threads : InsReload(t)
    \/ \E t \in Threads : InsRecheckHit(t)
    \/ \E t \in Threads : InsPublish(t)
    \/ \E t \in Threads : InsUnlock(t)
    \/ \E t \in Threads : InsFail(t)

Spec == Init /\ [][Next]_vars

\* a store built by Library::new() (lines 125-130)
InitLive == Init /\ capacity = 0

\* the steps of the program when no thread fails under the lock: the mutex
\* is then never poisoned
NextLive ==
    \/ \E t \in Threads, k \in Keys : GetLoad(t, k)
    \/ \E t \in Threads : GetRead(t)
    \/ \E t \in Threads, k \in Keys, v \in Values : InsLoad(t, k, v)
    \/ \E t \in Threads : InsFastHit(t)
    \/ \E t \in Threads : InsLock(t)
    \/ \E t \in Threads : InsReload(t)
    \/ \E t \in Threads : InsRecheckHit(t)
    \/ \E t \in Threads : InsPublish(t)
    \/ \E t \in Threads : InsUnlock(t)

\* the steps a thread takes by itself once it is inside get or insert
ThreadStep(t) ==
    \/ GetRead(t)
    \/ InsFastHit(t)
    \/ InsLock(t)
    \/ InsReload(t)
    \/ InsRecheckHit(t)
    \/ InsPublish(t)
    \/ InsUnlock(t)

\* a thread inside a call is scheduled again as long as it can take a step
\* (a thread blocked in lock() can take none while the mutex is held)
SpecLive ==
    /\ InitLive
    /\ [][NextLive]_vars
    /\ \A t \in Threads : WF_vars(ThreadStep(t))

\* the heap references are well formed
TypeOK ==
    /\ internal_data \in DOMAIN snaps
    /\ \A s \in DOMAIN snaps : \A k \in Keys : snaps[s][k] \in {None} \cup DOMAIN cells
    /\ \A c \in DOMAIN cells : cells[c] \in DOMAIN arcs
    /\ insert_mutex \in {None} \cup Threads

\* ---------------------------------------------------------------- claims

\* the call whose Arc<V> is `a`, and the key that call wrote
Writer(a) == arcs[a].by
KeyOf(a)  == calls[arcs[a].by].key

\* C1: a get(k) that started after insert(k, v) returned is present, and
\* what it returns was written by an insert on k that had not completed
\* before insert(k, v) started (insert(k, v) itself, or one that raced with
\* or followed it); the value is the one that insert supplied.
C1_GetAfterInsert ==
    \A t \in Threads :
        (got[t].key # None /\ got[t].seen # {}) =>
            /\ got[t].res # None
            /\ Writer(got[t].res) \in CallsOn(got[t].key)
            /\ got[t].val = calls[Writer(got[t].res)].val
            /\ \A i \in got[t].seen : Writer(got[t].res) \notin calls[i].prior

\* C1 witness: a get returned after an insert that took the fast path and
\* was itself preceded by a completed insert on the same key
C1_Witness ==
    \E t \in Threads : \E i \in got[t].seen :
        /\ got[t].key # None
        /\ calls[i].path = "fast"
        /\ calls[i].prior \cap CallsOn(got[t].key) # {}
        /\ \E j \in calls[i].prior : calls[j].key = got[t].key /\ calls[j].val # calls[i].val

\* C2: an insert that has returned and is the only insert ever invoked on
\* its key (so it took the slow path) has its key in the current snapshot
\* with exactly its value, whatever other inserts ran concurrently.
C2_NoLostKey ==
    \A c \in Done :
        CallsOn(calls[c].key) = {c} =>
            /\ Visible(calls[c].key) # None
            /\ Writer(Visible(calls[c].key)) = c
            /\ arcs[Visible(calls[c].key)].val = calls[c].val

\* C2 witness: two inserts of distinct new keys overlapped in time, both
\* published a snapshot and both have returned
C2_Witness ==
    \E a, b \in Done :
        /\ calls[a].key # calls[b].key
        /\ CallsOn(calls[a].key) = {a} /\ CallsOn(calls[b].key) = {b}
        /\ calls[a].path = "publish" /\ calls[b].path = "publish"
        /\ a \notin calls[b].prior /\ b \notin calls[a].prior
        /\ \A t \in Threads : pc[t] = "idle"

\* the Arc<V> of the write that took effect last on key k (None if none did)
LastWrite(k) ==
    LET on == {a \in DOMAIN arcs : KeyOf(a) = k}
    IN  IF on = {} THEN None ELSE CHOOSE a \in on : \A b \in on : b <= a

\* C3, state part: once all inserts on a key have returned (at least one of them
\* normally), get on that key is present and returns the value of the insert
\* whose replace / cell creation took effect last; it stays that value as
\* long as no further insert on the key runs.
C3_Quiescent(k) ==
    (RunningOn(k) = {} /\ DoneOn(k) # {}) =>
        /\ Visible(k) # None
        /\ Visible(k) = LastWrite(k)
        /\ Writer(Visible(k)) \in DoneOn(k)
        /\ arcs[Visible(k)].val = calls[Writer(Visible(k))].val

\* C3, step part: with no insert running on k the visible value is unchanged
C3_Stable(k) ==
    (RunningOn(k) = {} /\ RunningOn(k)' = {}) => Visible(k)' = Visible(k)

\* C3: same-key inserts resolve to the write that took effect last, in
\* every state where the key is quiescent, and the resolution is stable.
C3_SameKeyRace ==
    /\ [](\A k \in Keys : C3_Quiescent(k))
    /\ [][\A k \in Keys : C3_Stable(k)]_vars

\* C3 witness: two inserts on the same key with different values overlapped
\* in time and both have returned
C3_Witness ==
    \E a, b \in Done :
        /\ a # b
        /\ calls[a].key = calls[b].key
        /\ calls[a].val # calls[b].val
        /\ a \notin calls[b].prior /\ b \notin calls[a].prior
        /\ RunningOn(calls[a].key) = {}
        /\ Visible(calls[a].key) # None

\* C4: when insert(k, v1) returned before insert(k, v2) was invoked and no
\* other insert on k exists, a get(k) that started after insert(k, v2)
\* returned yields v2, written by that second insert.
C4_OrderedWrites ==
    \A t \in Threads : \A a, b \in got[t].seen :
        (/\ got[t].key # None
         /\ a \in calls[b].prior
         /\ CallsOn(got[t].key) = {a, b}) =>
            /\ got[t].res # None
            /\ Writer(got[t].res) = b
            /\ got[t].val = calls[b].val

\* C4 witness: a get returned after two ordered inserts of different values
\* on its key, the second of which took the fast path
C4_Witness ==
    \E t \in Threads : \E a, b \in got[t].seen :
        /\ got[t].key # None
        /\ a \in calls[b].prior
        /\ CallsOn(got[t].key) = {a, b}
        /\ calls[a].val # calls[b].val
        /\ calls[a].path = "publish" /\ calls[b].path = "fast"

\* C5: a key on which no insert was ever invoked is absent from every
\* snapshot, published or still held by a thread, and a get on it that has
\* returned returned None.
C5_AbsentBeforeInsert ==
    \A k \in Keys :
        CallsOn(k) = {} =>
            /\ Visible(k) = None
            /\ \A t \in Threads :
                   /\ (pc[t] = "get_read" /\ key[t] = k) => GetResult(store[t], k) = None
                   /\ got[t].key = k => got[t].res = None

\* C5 witness: a get on a never-inserted key has returned while another
\* key is present and an insert is in flight
C5_Witness ==
    \E t \in Threads : \E k \in Keys :
        /\ got[t].key = k
        /\ CallsOn(k) = {}
        /\ \E j \in Keys : Visible(j) # None
        /\ \E c \in DOMAIN calls : calls[c].state = "run"

\* C6: a handle returned by get keeps denoting the value it denoted when it
\* was returned, whatever inserts run afterwards.
C6_HandleStable ==
    \A t \in Threads :
        got[t].res # None => arcs[got[t].res].val = got[t].val

\* C6 witness: a thread holds a handle to a value of a key that has since
\* been given another value, after a snapshot was published for another key
C6_Witness ==
    \E t \in Threads :
        /\ got[t].res # None
        /\ Visible(KeyOf(got[t].res)) # got[t].res
        /\ arcs[Visible(KeyOf(got[t].res))].val # got[t].val
        /\ \E a \in DOMAIN arcs : a > got[t].res /\ KeyOf(a) # KeyOf(got[t].res)
                                   /\ calls[Writer(a)].path = "publish"

\* C7, state part: get takes no lock and is never held up: in every state, also while
\* another thread holds the mutex in the middle of clone-insert-publish, an
\* idle thread can enter get and a thread inside get can finish it; the
\* snapshot it reads is one that was published, and its steps leave the
\* mutex and the shared data untouched.
C7_GetEnabled ==
    \A t \in Threads :
        /\ pc[t] = "idle" => \A k \in Keys : ENABLED GetLoad(t, k)
        /\ pc[t] = "get_read" =>
               /\ ENABLED GetRead(t)
               /\ store[t] \in 1..internal_data

\* C7, step part: a step of get changes neither shared data nor the mutex
C7_GetSteps ==
    \A t \in Threads :
        ((\E k \in Keys : GetLoad(t, k)) \/ GetRead(t)) => UNCHANGED <<shared, lock>>

\* C7: get never waits for the mutex: its steps are always enabled and
\* touch neither the mutex nor the shared data.
C7_GetNeverWaits == []C7_GetEnabled /\ [][C7_GetSteps]_vars

\* C7 witness: a get loaded the snapshot that the lock holder has just
\* published, while that holder still holds the mutex
C7_Witness ==
    \E t, u \in Threads :
        /\ insert_mutex = t
        /\ pc[t] = "ins_unlock"
        /\ calls[call[t]].path = "publish"
        /\ pc[u] = "get_read"
        /\ store[u] = internal_data

\* C8, state part: an insert whose first loaded snapshot holds the key can always do
\* its replace and return, also while another thread holds the mutex; it
\* never reaches lock acquisition, and its step publishes no snapshot and
\* leaves the mutex untouched.
C8_FastEnabled ==
    \A t \in Threads :
        (pc[t] = "ins_fast" /\ Lookup(store[t], key[t]) # None) =>
            /\ ENABLED InsFastHit(t)
            /\ ~ENABLED InsLock(t)
            /\ ~ENABLED InsLockPoisoned(t)

\* C8, step part: the fast-path step replaces the cell content of the key in
\* the current snapshot, returns, and changes nothing else that is shared
C8_FastStep ==
    \A t \in Threads :
        InsFastHit(t) =>
            /\ UNCHANGED <<internal_data, snaps, lock>>
            /\ calls'[call[t]].state = "done"
            /\ cells'[Lookup(internal_data, key[t])] = Len(arcs')
            /\ arcs'[Len(arcs')] = NewArc(call[t])

\* C8: the fast path of insert is lock-free: always enabled when the loaded
\* snapshot holds the key, no lock acquisition, no publication.
C8_FastPathLockFree == []C8_FastEnabled /\ [][C8_FastStep]_vars

\* C8 witness: an insert is about to take the fast path while another
\* thread holds the mutex in the middle of its structural insert
C8_Witness ==
    \E t, u \in Threads :
        /\ pc[t] = "ins_fast"
        /\ Lookup(store[t], key[t]) # None
        /\ insert_mutex = u
        /\ pc[u] = "ins_check"

\* thread t is between its lock acquisition and the return of its insert
InSection(t) == pc[t] \in {"ins_reload", "ins_check", "ins_unlock"}

\* C9, state part: the mutex is held exactly when one thread is between lock
\* acquisition and return, and by that thread; two threads are never both
\* there; only the holder replaces the current snapshot; a thread that
\* leaves the section by either exit leaves the mutex free.
C9_Held ==
    /\ \A t \in Threads : InSection(t) <=> insert_mutex = t
    /\ Cardinality({t \in Threads : InSection(t)}) <= 1

\* C9, step part: only the holder publishes; leaving the section frees the mutex
C9_Steps ==
    /\ internal_data' # internal_data =>
           /\ insert_mutex # None
           /\ pc[insert_mutex] = "ins_check"
           /\ pc'[insert_mutex] = "ins_unlock"
    /\ \A t \in Threads :
           (InSection(t) /\ pc'[t] = "idle") => insert_mutex' = None

\* C9: lock discipline: held iff exactly one thread is in the section, only
\* the holder publishes, and every exit from the section frees the mutex.
C9_LockDiscipline == []C9_Held /\ [][C9_Steps]_vars

\* C9 witness: one insert has returned through the re-check hit (it waited
\* for the mutex while the key was published), another through publication,
\* and the mutex is free again
C9_Witness ==
    \E a, b \in Done :
        /\ calls[a].path = "recheck"
        /\ calls[b].path = "publish"
        /\ calls[a].key = calls[b].key
        /\ insert_mutex = None
        /\ \A t \in Threads : ~InSection(t)

\* the insert calls that ended in a panic
Panicked == {c \in DOMAIN calls : calls[c].state = "panic"}

\* C10, state part: once a thread has failed while holding the mutex, an insert that
\* reaches lock acquisition cannot take the mutex; it ends in a panic, and
\* that step changes no snapshot, no cell and no value. A panicked insert
\* never wrote anything.
C10_NoEntry ==
    /\ poisoned =>
           /\ insert_mutex = None
           /\ \A t \in Threads :
                  /\ ~InSection(t)
                  /\ (pc[t] = "ins_fast" /\ Lookup(store[t], key[t]) = None) =>
                         /\ ~ENABLED InsLock(t)
                         /\ ENABLED InsLockPoisoned(t)
    /\ \A c \in Panicked :
           /\ calls[c].path = "none"
           /\ \A a \in DOMAIN arcs : Writer(a) # c

\* C10, step part: the poison flag is never cleared, and the step of an
\* insert at lock acquisition on a poisoned mutex is a panic without writes
C10_Steps ==
    /\ poisoned => poisoned'
    /\ \A t \in Threads :
           (poisoned /\ pc[t] = "ins_fast" /\ Lookup(store[t], key[t]) = None
              /\ pc'[t] # pc[t]) =>
               /\ UNCHANGED <<shared, lock>>
               /\ pc'[t] = "idle"
               /\ calls'[call[t]].state = "panic"

\* C10: lock poisoning is fatal and not swallowed: after a failure under
\* the mutex every insert reaching lock acquisition panics without effect.
C10_PoisonFatal == []C10_NoEntry /\ [][C10_Steps]_vars

\* C10 witness: after a failure under the lock a later insert of an absent
\* key has ended in a panic, with an earlier key still present
C10_Witness ==
    /\ poisoned
    /\ Cardinality(Panicked) >= 2
    /\ \E k \in Keys : Visible(k) # None

\* the inserts ran one after another: each returned before the next began
Sequential == \A c, d \in DOMAIN calls : c < d => c \in calls[d].prior

\* no two insert calls were given the same key
DistinctKeys == \A c, d \in DOMAIN calls : c # d => calls[c].key # calls[d].key

\* the value a get of each key would return now (None: absent)
Observable ==
    [k \in Keys |-> IF Visible(k) = None THEN None ELSE arcs[Visible(k)].val]

\* the key-to-value map of the insert calls, whatever their order
Inserted ==
    [k \in Keys |-> IF CallsOn(k) = {} THEN None
                    ELSE calls[CHOOSE c \in CallsOn(k) : TRUE].val]

\* C11, state part: after sequential inserts of pairwise distinct keys have
\* all returned, the observable map is exactly the inserted key-to-value
\* map, which does not depend on the order of the calls
C11_AllRetrievable ==
    (Sequential /\ DistinctKeys /\ Done = DOMAIN calls) => Observable = Inserted

\* C11, step part: while the inserted keys are pairwise distinct, no step
\* changes the value of a key that is already present
C11_KeepsOthers ==
    \A k \in Keys :
        (Sequential /\ DistinctKeys /\ Visible(k) # None) => Visible(k)' = Visible(k)

\* C11: sequential inserts of n distinct keys, in any order, leave every key
\* retrievable with its own value, and a new key never changes an old one.
C11_SequentialDistinct ==
    [](C11_AllRetrievable) /\ [][C11_KeepsOthers]_vars

\* C11 witness: as many sequential inserts as there are keys have returned,
\* on distinct keys given in descending order and with different values
C11_Witness ==
    /\ Sequential /\ DistinctKeys
    /\ Done = DOMAIN calls
    /\ Len(calls) = NumKeys
    /\ \A c, d \in DOMAIN calls : c < d => calls[c].key > calls[d].key
    /\ \E c, d \in DOMAIN calls : calls[c].val # calls[d].val

\* the value the last of the insert calls on k supplied (None: no call)
Replay(k) ==
    IF CallsOn(k) = {} THEN None
    ELSE calls[CHOOSE c \in CallsOn(k) : \A d \in CallsOn(k) : d <= c].val

\* C12: whatever capacity the store was created with (none, as new() does,
\* or any n given to with_capacity), a get that follows a sequence of
\* inserts returns what replaying that sequence gives: the value of the
\* last insert on its key, or absent. The result is a function of the
\* sequence of operations alone, so it is the same for every capacity.
C12_CapacityInert ==
    \A n \in 0..MaxCapacity : \A t \in Threads :
        (/\ capacity = n
         /\ got[t].key # None
         /\ Sequential
         /\ CallsOn(got[t].key) = got[t].seen) =>
            got[t].val = Replay(got[t].key)

\* C12 witness: a store created by with_capacity(n), n > 0, has been given
\* more keys than n by sequential inserts, and a get on one of them returned
C12_Witness ==
    \E t \in Threads :
        /\ capacity = MaxCapacity
        /\ Size(internal_data) > capacity
        /\ Sequential
        /\ got[t].key # None
        /\ got[t].res # None
        /\ CallsOn(got[t].key) = got[t].seen

\* the keys some insert has taken effect on, and the calls that published
Written  == {k \in Keys : \E c \in CallsOn(k) : calls[c].path # "none"}
Published(k) == {c \in CallsOn(k) : calls[c].path = "publish"}

\* the cells key k is mapped to in any snapshot ever built
CellsOf(k) == {snaps[s][k] : s \in DOMAIN snaps} \ {None}

\* C13, state part: every key written so far was published exactly once and
\* has exactly one cell; the snapshots published and the cells created are
\* as many as the distinct keys written
C13_OncePerKey ==
    /\ \A k \in Keys : Cardinality(Published(k)) = (IF k \in Written THEN 1 ELSE 0)
    /\ \A k \in Keys : Cardinality(CellsOf(k)) = (IF k \in Written THEN 1 ELSE 0)
    /\ Len(snaps) - 1 = Cardinality(Written)
    /\ Len(cells) = Cardinality(Written)
    /\ internal_data = Len(snaps)

\* C13, step part: a thread that finds the key under the lock replaces the
\* content of the existing cell and publishes nothing
C13_RecheckStep ==
    \A t \in Threads :
        (pc[t] = "ins_check" /\ Lookup(internal_data, key[t]) # None
           /\ pc'[t] = "ins_unlock") =>
            /\ UNCHANGED <<internal_data, snaps>>
            /\ Len(cells') = Len(cells)
            /\ cells'[Lookup(internal_data, key[t])] = Len(arcs')
            /\ arcs'[Len(arcs')] = NewArc(call[t])

\* C13: the re-check under the lock prevents a second structural insertion
\* of a key: one publication and one cell per distinct key, over every
\* interleaving.
C13_NoDuplicateInsertion == []C13_OncePerKey /\ [][C13_RecheckStep]_vars

\* C13 witness: two inserts both saw the key as absent on their fast path;
\* one published it, the other found it under the lock and has returned
C13_Witness ==
    \E a, b \in Done :
        /\ calls[a].key = calls[b].key
        /\ calls[a].path = "publish"
        /\ calls[b].path = "recheck"
        /\ calls[a].val # calls[b].val
        /\ Visible(calls[a].key) # None
        /\ Writer(Visible(calls[a].key)) = b

\* C14: a key present in a snapshot is present in every snapshot published
\* after it, mapped to the same cell; so the key set only grows, and the
\* cell a thread finds in the snapshot it holds, however old, is the cell
\* the current snapshot has for that key.
C14_KeyPersistence ==
    /\ \A s, s2 \in DOMAIN snaps : \A k \in Keys :
           (s < s2 /\ snaps[s][k] # None) => snaps[s2][k] = snaps[s][k]
    /\ \A t \in Threads :
           (store[t] # None /\ Lookup(store[t], key[t]) # None) =>
               Lookup(internal_data, key[t]) = Lookup(store[t], key[t])

\* C14 witness: an insert is about to replace the content of a cell it found
\* in a snapshot that has been superseded by the publication of another key
C14_Witness ==
    \E t \in Threads :
        /\ pc[t] = "ins_fast"
        /\ store[t] # internal_data
        /\ Lookup(store[t], key[t]) # None
        /\ Size(internal_data) > Size(store[t])

\* the keys of snapshot `s`
KeySet(s) == {k \in Keys : snaps[s][k] # None}

\* C15, step part: no step changes a mapping that exists; the current
\* snapshot reference changes only to a mapping built in that very step
C15_Step ==
    /\ \A s \in DOMAIN snaps : s \in DOMAIN snaps' /\ snaps'[s] = snaps[s]
    /\ internal_data' # internal_data =>
           /\ internal_data' \notin DOMAIN snaps
           /\ internal_data' \in DOMAIN snaps'
           /\ KeySet(internal_data) \subseteq {k \in Keys : snaps'[internal_data'][k] # None}
    /\ \A t \in Threads :
           (store[t] # None /\ store'[t] = store[t]) =>
               {k \in Keys : snaps'[store'[t]][k] # None} = KeySet(store[t])

\* C15: published snapshots are immutable: their key set and key-to-cell
\* association never change, also after they are superseded; the store
\* changes only by replacing the current-snapshot reference with a freshly
\* built mapping.
C15_SnapshotsImmutable == [][C15_Step]_vars

\* C15 witness: a get holds a snapshot that has been superseded by one with
\* more keys
C15_Witness ==
    \E t \in Threads :
        /\ pc[t] = "get_read"
        /\ store[t] # internal_data
        /\ KeySet(store[t]) # KeySet(internal_data)
        /\ KeySet(store[t]) # {}

\* the key of the call thread t is running, or enters, in this step
StepKey(t) == IF pc[t] = "idle" THEN key'[t] ELSE key[t]

\* C16, step part: a step of a thread changes what get would return for no
\* key other than the key of its own call, and the fast-path replace leaves
\* the current-snapshot reference as it is
C16_Step ==
    \A t \in Threads :
        pc'[t] # pc[t] =>
            /\ \A j \in Keys \ {StepKey(t)} : Visible(j)' = Visible(j)
            /\ (pc[t] = "ins_fast" /\ Lookup(store[t], key[t]) # None) =>
                   internal_data' = internal_data

\* C16, state part: every insert that returned took effect on its own key:
\* its Arc<V> exists, and its key shows that value or a later write to the
\* same key
C16_AllTakeEffect ==
    \A c \in Done :
        \E a \in DOMAIN arcs :
            /\ arcs[a] = NewArc(c)
            /\ Visible(calls[c].key) # None
            /\ Visible(calls[c].key) >= a
            /\ KeyOf(Visible(calls[c].key)) = calls[c].key

C16_TwoFastPaths ==
    \E a, b \in Done :
        /\ calls[a].key # calls[b].key
        /\ calls[a].path = "fast" /\ calls[b].path = "fast"
        /\ a \notin calls[b].prior /\ b \notin calls[a].prior
        /\ Writer(Visible(calls[a].key)) = a
        /\ Writer(Visible(calls[b].key)) = b

\* C17: when no thread fails under the lock, under fair scheduling every
\* get and every insert that was entered returns; a thread waiting in
\* lock() is granted the mutex because every holder releases it.
C17_Termination ==
    \A t \in Threads : (pc[t] # "idle") ~> (pc[t] = "idle")

\* C17 witness: an insert that waited for the mutex returned through the
\* re-check hit, and an insert of another new key took the mutex after it and
\* returned too; nothing is running
C17_Witness ==
    /\ \A t \in Threads : pc[t] = "idle"
    /\ Done = DOMAIN calls
    /\ \E a, b, c \in Done :
           /\ calls[a].path = "publish"
           /\ calls[b].path = "recheck"
           /\ calls[c].path = "publish"
           /\ a < c /\ b < c
           /\ calls[a].key = calls[b].key

\* C18: a get(k) that returns present returns exactly the value argument of
\* an insert(k, .) that was entered before the get returned: the Arc<V> it
\* hands out was stored by an insert on the same key and holds that insert's
\* value unchanged; every cell reachable under k in any snapshot holds such
\* an Arc<V>, so no value crosses from one key to another.
C18_NoThinAir ==
    /\ \A a \in DOMAIN arcs :
           /\ Writer(a) \in DOMAIN calls
           /\ arcs[a].val = calls[Writer(a)].val
           /\ arcs[a].val \in Values
    /\ \A s \in DOMAIN snaps : \A k \in Keys :
           snaps[s][k] # None => KeyOf(cells[snaps[s][k]]) = k
    /\ \A t \in Threads :
           got[t].res # None =>
               /\ got[t].res \in DOMAIN arcs
               /\ got[t].val = calls[Writer(got[t].res)].val
               /\ got[t].key # None => KeyOf(got[t].res) = got[t].key

\* C18 witness: a get returned the value inserted under its key while an
\* insert of a different value under another key had also taken effect and
\* a third insert with a different value was still running
C18_Witness ==
    \E t \in Threads : \E c \in DOMAIN calls : \E d \in DOMAIN calls :
        /\ got[t].key # None
        /\ got[t].res # None
        /\ Writer(got[t].res) # c
        /\ calls[c].key # got[t].key
        /\ calls[c].val # got[t].val
        /\ calls[c].state = "done"
        /\ calls[d].state = "run"
        /\ calls[d].val # got[t].val

\* C19: reads of one key are monotone. While a get(k) runs, if a get(k)
\* that returned before it began had obtained an Arc<V>, then what the
\* running get would return now is present and is that Arc<V> or one stored
\* later in k's cell, even when its snapshot is no longer the published one;
\* this holds in particular in the state from which the get returns.
C19_MonotoneReads ==
    \A t \in Threads :
        (pc[t] = "get_read" /\ floor[t] # None) =>
            /\ GetResult(store[t], key[t]) # None
            /\ GetResult(store[t], key[t]) >= floor[t]
            /\ KeyOf(GetResult(store[t], key[t])) = key[t]
            /\ KeyOf(floor[t]) = key[t]

\* C19 witness: a get on a key runs on a snapshot that has been replaced
\* since, an earlier get on the key had returned a value, and the running
\* get is about to return the value of a later write to the key
C19_Witness ==
    \E t \in Threads :
        /\ pc[t] = "get_read"
        /\ floor[t] # None
        /\ store[t] # internal_data
        /\ GetResult(store[t], key[t]) # None
        /\ GetResult(store[t], key[t]) > floor[t]
        /\ arcs[GetResult(store[t], key[t])].val # arcs[floor[t]].val

\* C20, state part: with the mutex poisoned, a get can still be entered and
\* can still return, and an insert whose snapshot holds its key can still
\* take the fast path; an insert whose snapshot lacks its key can only panic
C20_StillServed ==
    poisoned =>
        \A t \in Threads :
            /\ pc[t] = "idle" => \A k \in Keys : ENABLED GetLoad(t, k)
            /\ pc[t] = "get_read" => ENABLED GetRead(t)
            /\ (pc[t] = "ins_fast" /\ Lookup(store[t], key[t]) # None) =>
                   ENABLED InsFastHit(t)
            /\ (pc[t] = "ins_fast" /\ Lookup(store[t], key[t]) = None) =>
                   /\ ENABLED InsLockPoisoned(t)
                   /\ ~ENABLED InsLock(t)

\* C20, step part: with the mutex poisoned no step publishes a snapshot, so
\* the key set stays as it is; a get returns what its snapshot holds for the
\* key, and a fast-path insert stores its value where gets on the current
\* snapshot find it
C20_Steps ==
    poisoned =>
        /\ UNCHANGED <<internal_data, snaps>>
        /\ KeySet(internal_data') = KeySet(internal_data)
        /\ \A t \in Threads :
               /\ GetRead(t) => got'[t].res = GetResult(store[t], key[t])
               /\ InsFastHit(t) =>
                      /\ calls'[call[t]].state = "done"
                      /\ Lookup(internal_data, key[t]) # None
                      /\ cells'[Lookup(internal_data, key[t])] = Len(arcs')
                      /\ arcs'[Len(arcs')] = NewArc(call[t])

\* C20: poisoning disables only structural inserts: after a failure under
\* the lock, get on any key and insert on a key of the snapshot still work,
\* and the key set of the store never grows again.
C20_PoisonOnlyStructural == []C20_StillServed /\ [][C20_Steps]_vars

\* C20 witness: the mutex is poisoned while one thread is about to take the
\* fast path with a value different from the one the key holds, and the
\* other thread is inside a get
C20_Witness ==
    /\ poisoned
    /\ \E t, u \in Threads :
           /\ pc[t] = "ins_fast"
           /\ Lookup(store[t], key[t]) # None
           /\ arcs[Visible(key[t])].val # calls[call[t]].val
           /\ pc[u] = "get_read"

====
